---- MODULE Spec2Model ----
(***************************************************************************)
(* A model of the retrieval and grounding pipeline of HandBook_Generation: *)
(*   backend/rag_service.py        _make_subqueries, rag_answer            *)
(*   backend/chunking.py           chunk_pages                             *)
(*   backend/vector_store_faiss.py FaissVectorStore                        *)
(*   backend/handbook_service.py   parse_toc, generate_handbook            *)
(*   backend/llm_xai.py            chat_completion                         *)
(*                                                                         *)
(* A Python str is a sequence of one-character strings.  Each component    *)
(* has its own variables and its own specification; the variables of the   *)
(* other components stay at their initial value.                           *)
(***************************************************************************)
EXTENDS Integers, Sequences, FiniteSets, TLC

VARIABLES
    \* _make_subqueries called on its own
    sq_pc, sq_question, sq_out,
    \* one call of rag_answer
    rag_pc, rag_question, rag_k, rag_env, rag_hits, rag_merged, rag_deduped,
    rag_retrieved, rag_answer, rag_evidence, rag_context, rag_log,
    \* one call of chunk_pages
    ch_pc, ch_pages, ch_max_tokens, ch_overlap_tokens, ch_chunks, ch_pages_seen,
    \* a FaissVectorStore (index, chunks), the two files of its directory, and
    \* the last call made on it
    st_index, st_chunks, fs_index, fs_meta, st_last,
    \* one call of generate_handbook: where it is, its arguments and
    \* environment, its locals, the output directory and file, and the calls
    \* it has made
    hb_pc, hb_topic, hb_env, hb_toc, hb_sections, hb_i, hb_retrieved,
    hb_section_text, hb_dir, hb_file, hb_log, hb_result

sqVars == <<sq_pc, sq_question, sq_out>>
ragVars == <<rag_pc, rag_question, rag_k, rag_env, rag_hits, rag_merged,
             rag_deduped, rag_retrieved, rag_answer, rag_evidence,
             rag_context, rag_log>>
chVars == <<ch_pc, ch_pages, ch_max_tokens, ch_overlap_tokens, ch_chunks,
            ch_pages_seen>>
stVars == <<st_index, st_chunks, fs_index, fs_meta, st_last>>
hbVars == <<hb_pc, hb_topic, hb_env, hb_toc, hb_sections, hb_i, hb_retrieved,
            hb_section_text, hb_dir, hb_file, hb_log, hb_result>>
vars == <<sqVars, ragVars, chVars, stVars, hbVars>>

\* Every call is "call" before it runs, then "returned" or "raised".

----------------------------------------------------------------------------
(* Python str operations *)

\* str.isspace for the characters of the model
IsSpace(c) == c \in {" ", "\t", "\n"}

\* str.lower on one character
LowerChar(c) ==
    CASE c = "A" -> "a" [] c = "N" -> "n" [] c = "D" -> "d"
      [] c = "W" -> "w" [] c = "X" -> "x" [] c = "Y" -> "y"
      [] OTHER -> c

\* str.lower
Lower(s) == [i \in 1..Len(s) |-> LowerChar(s[i])]

\* s[a..b] (1-based, inclusive), empty when a > b
Slice(s, a, b) == IF a > b THEN <<>> ELSE SubSeq(s, a, b)

\* the least element of a set of positions, or default when it is empty
FirstIn(S, default) == IF S = {} THEN default ELSE CHOOSE j \in S : \A k \in S : j <= k

\* the greatest element of a set of positions, or default when it is empty
LastIn(S, default) == IF S = {} THEN default ELSE CHOOSE j \in S : \A k \in S : j >= k

\* the elements of a set of positions in increasing order
Ascending(S) ==
    [k \in 1..Cardinality(S) |-> CHOOSE x \in S : Cardinality({y \in S : y < x}) = k - 1]

\* the first position from i on whose character is not in chars (Len(s) + 1
\* when there is none)
LStripFrom(s, chars, i) == FirstIn({j \in i..Len(s) : s[j] \notin chars}, Len(s) + 1)

\* the last position up to j whose character is not in chars (0 when there is
\* none)
RStripFrom(s, chars, j) == LastIn({i \in 1..j : s[i] \notin chars}, 0)

\* str.strip(chars): drop leading and trailing characters that are in chars
StripChars(s, chars) ==
    Slice(s, LStripFrom(s, chars, 1), RStripFrom(s, chars, Len(s)))

\* str.strip()
Strip(s) == StripChars(s, {" ", "\t", "\n"})

\* sub in s
Contains(s, sub) ==
    \E i \in 1..(Len(s) - Len(sub) + 1) : SubSeq(s, i, i + Len(sub) - 1) = sub

RECURSIVE Concat(_)
Concat(ss) == IF ss = <<>> THEN <<>> ELSE Head(ss) \o Concat(Tail(ss))

RECURSIVE Join(_, _)
\* sep.join(parts)
Join(sep, parts) ==
    IF parts = <<>> THEN <<>>
    ELSE IF Len(parts) = 1 THEN parts[1]
    ELSE parts[1] \o sep \o Join(sep, Tail(parts))

\* str.split(): the maximal runs of non-whitespace characters
SplitWords(s) ==
    LET starts == Ascending({i \in 1..Len(s) :
                        ~IsSpace(s[i]) /\ (i = 1 \/ IsSpace(s[i - 1]))})
    IN  [k \in 1..Len(starts) |->
            Slice(s, starts[k],
                  FirstIn({j \in starts[k]..Len(s) : IsSpace(s[j])}, Len(s) + 1) - 1)]

\* re.split(r"[chars]+", s): split at every maximal run of characters of chars
SplitRuns(s, chars) ==
    LET runs == Ascending({i \in 1..Len(s) :
                      s[i] \in chars /\ (i = 1 \/ s[i - 1] \notin chars)})
    IN  [k \in 1..(Len(runs) + 1) |->
            Slice(s, IF k = 1 THEN 1 ELSE LStripFrom(s, chars, runs[k - 1]),
                     IF k = Len(runs) + 1 THEN Len(s) ELSE runs[k] - 1)]

RECURSIVE SplitSepFrom(_, _, _, _)
\* one step per occurrence of sep, from position st on
SplitSepFrom(s, sep, st, acc) ==
    LET at == FirstIn({j \in st..(Len(s) - Len(sep) + 1) :
                        SubSeq(s, j, j + Len(sep) - 1) = sep}, 0)
    IN  IF at = 0 THEN Append(acc, Slice(s, st, Len(s)))
        ELSE SplitSepFrom(s, sep, at + Len(sep), Append(acc, Slice(s, st, at - 1)))

\* s.split(sep) for a non-empty separator: leftmost non-overlapping occurrences
SplitSep(s, sep) == SplitSepFrom(s, sep, 1, <<>>)

\* A match of \s+and\s+ (IGNORECASE) that starts at i: the position after the
\* match, or 0 when there is none.  Both \s+ are greedy.
MatchAndAt(s, i) ==
    IF ~(i <= Len(s) /\ IsSpace(s[i])) THEN 0
    ELSE LET a == LStripFrom(s, {" ", "\t", "\n"}, i)
         IN IF a + 3 <= Len(s)
               /\ Lower(SubSeq(s, a, a + 2)) = <<"a", "n", "d">>
               /\ IsSpace(s[a + 3])
            THEN LStripFrom(s, {" ", "\t", "\n"}, a + 3)
            ELSE 0

RECURSIVE SplitAndFrom(_, _, _)
\* one step per match, the leftmost match from position st on
SplitAndFrom(s, st, acc) ==
    LET at == FirstIn({j \in st..Len(s) : MatchAndAt(s, j) > 0}, 0)
    IN  IF at = 0 THEN Append(acc, Slice(s, st, Len(s)))
        ELSE SplitAndFrom(s, MatchAndAt(s, at), Append(acc, Slice(s, st, at - 1)))

\* re.split(r"\s+and\s+", s, flags=re.IGNORECASE)
SplitAnd(s) == SplitAndFrom(s, 1, <<>>)

RECURSIVE CollapseWsFrom(_, _, _)
\* one step per run of whitespace, from position st on
CollapseWsFrom(s, st, acc) ==
    LET at == FirstIn({j \in st..Len(s) : IsSpace(s[j])}, 0)
    IN  IF at = 0 THEN acc \o Slice(s, st, Len(s))
        ELSE CollapseWsFrom(s, LStripFrom(s, {" ", "\t", "\n"}, at),
                            acc \o Slice(s, st, at - 1) \o <<" ">>)

\* re.sub(r"\s+", " ", s)
CollapseWs(s) == CollapseWsFrom(s, 1, <<>>)

----------------------------------------------------------------------------
(* backend/rag_service.py: _make_subqueries *)

\* len(q) > 120 enables the comma split
CommaMinLen == 120

\* out[:4]
SubqueryCap == 4

\* the characters of p.strip(" .,:;")
PartStripCharsAndMark == {" ", ".", ",", ":", ";", "?"}
PartStripChars == {" ", ".", ",", ":", ";"}

\* [p.strip(" .,:;") for p in parts if p.strip()]
RECURSIVE CleanParts(_)
CleanParts(parts) ==
    IF parts = <<>> THEN <<>>
    ELSE (IF Strip(Head(parts)) # <<>>
          THEN <<StripChars(Head(parts), PartStripChars)>> ELSE <<>>)
         \o CleanParts(Tail(parts))

\* the candidate list subs before deduplication
Candidates(question) ==
    LET q == Strip(question)
    IN  <<q>>
        \o (IF Contains(Lower(q), <<" ", "a", "n", "d", " ">>)
            THEN CleanParts(SplitAnd(q)) ELSE <<>>)
        \o (IF Contains(q, <<";">>) \/ Contains(q, <<"?">>)
            THEN CleanParts(SplitRuns(q, {";", "?"})) ELSE <<>>)
        \o (IF Len(q) > CommaMinLen /\ Contains(q, <<",">>)
            THEN CleanParts(SplitSep(q, <<",">>)) ELSE <<>>)

\* the key of the seen set
SeenKeyExact(s2) == s2
SeenKey(s2) == Lower(s2)

RECURSIVE DedupSubs(_, _, _)
\* the loop over subs: normalise, drop empties and those already seen
DedupSubs(subs, seen, out) ==
    IF subs = <<>> THEN out
    ELSE LET s2 == Strip(CollapseWs(Head(subs)))
         IN IF s2 # <<>> /\ SeenKey(s2) \notin seen
            THEN DedupSubs(Tail(subs), seen \cup {SeenKey(s2)}, Append(out, s2))
            ELSE DedupSubs(Tail(subs), seen, out)

\* s[:n], a negative n counting from the end as Python slices do
Take(s, n) ==
    LET m == IF n < 0 THEN Len(s) + n ELSE n
    IN  IF m <= 0 THEN <<>> ELSE IF m >= Len(s) THEN s ELSE SubSeq(s, 1, m)

MakeSubqueries(question) == Take(DedupSubs(Candidates(question), {}, <<>>), SubqueryCap)

----------------------------------------------------------------------------
(* backend/llm_xai.py: chat_completion *)

\* The outcome of one call: the environment is checked first, then the request
\* is posted; resp is what the endpoint does ("ok", "http_error" for a status
\* >= 400, "timeout" for a transport exception).
ChatCompletion(env, resp, content) ==
    IF ~env.api_key THEN [raised |-> TRUE, posted |-> FALSE, content |-> <<>>]
    ELSE IF ~env.model THEN [raised |-> TRUE, posted |-> FALSE, content |-> <<>>]
    ELSE IF resp # "ok" THEN [raised |-> TRUE, posted |-> TRUE, content |-> <<>>]
    ELSE [raised |-> FALSE, posted |-> TRUE, content |-> content]

Envs == [api_key : BOOLEAN, model : BOOLEAN]
Responses == {"ok", "http_error", "timeout"}

\* what the endpoint may do with a request: fail, or answer one of texts
Replies(texts) ==
    { [resp |-> r, content |-> <<>>] : r \in Responses \ {"ok"} }
    \cup { [resp |-> "ok", content |-> t] : t \in texts }

----------------------------------------------------------------------------
(* backend/rag_prompt.py: format_retrieved_chunks *)

\* One line per result, in input order: the label [source | p.page | cN] and
\* the text.  The empty list gives the empty string, <<>>.
FormatRetrievedChunks(results) ==
    [i \in 1..Len(results) |->
        <<results[i].source_path, results[i].page, results[i].chunk_index,
          results[i].text>>]

----------------------------------------------------------------------------
(* backend/rag_service.py: rag_answer *)

\* "I don't have enough information in the uploaded PDFs."
Refusal == "I don't have enough information in the uploaded PDFs."

\* k_per = max(4, k)
MinPerQuery == 4
KPer(k) == IF k > MinPerQuery THEN k ELSE MinPerQuery

\* merged: the results of the searches, one search per sub-query, in order
Merged(hits) == Concat(hits)

\* key = (source_path, page, chunk_index)
IdentityKey(r) == <<r.source_path, r.page, r.chunk_index>>

\* float(r["score"]) > float(deduped[key]["score"])
KeepLowerScore(r, old) == r.score < old.score
ReplacesKept(r, old) == r.score > old.score

RECURSIVE Dedupe(_, _)
\* The dict deduped, as the sequence of its values in insertion order.
Dedupe(merged, deduped) ==
    IF merged = <<>> THEN deduped
    ELSE LET r == Head(merged)
             at == {i \in 1..Len(deduped) : IdentityKey(deduped[i]) = IdentityKey(r)}
         IN IF at = {} THEN Dedupe(Tail(merged), Append(deduped, r))
            ELSE LET i == CHOOSE j \in at : TRUE
                 IN Dedupe(Tail(merged),
                           IF ReplacesKept(r, deduped[i])
                           THEN [deduped EXCEPT ![i] = r] ELSE deduped)

RECURSIVE InsertByScore(_, _)
\* r placed after every entry whose score is not lower (sorted is stable)
InsertByScore(sorted, r) ==
    IF sorted = <<>> THEN <<r>>
    ELSE IF Head(sorted).score >= r.score
         THEN <<Head(sorted)>> \o InsertByScore(Tail(sorted), r)
         ELSE <<r>> \o sorted

RECURSIVE SortByScoreDesc(_, _)
\* sorted(values, key=score, reverse=True)
SortByScoreDesc(values, acc) ==
    IF values = <<>> THEN acc
    ELSE SortByScoreDesc(Tail(values), InsertByScore(acc, Head(values)))

\* sorted(...)[:k]
TopKUnsorted(deduped, k) == Take(deduped, k)
TopK(deduped, k) == Take(SortByScoreDesc(deduped, <<>>), k)

\* if not retrieved
NeverRefuses(retrieved) == FALSE
NoEvidence(retrieved) == retrieved = <<>>

\* the store.search calls, as logged events
SearchEvents(subqueries, k) ==
    [i \in 1..Len(subqueries) |-> <<"search", subqueries[i], KPer(k)>>]

\* The inputs of the model: a blank question (no sub-query), a plain one (one
\* sub-query) and one with a question mark (two sub-queries).
RagQuestions == { <<" ">>, <<"x">>, <<"x", "?">> }

\* k ranges over -1..MaxK
MaxK == 2
RagKs == -1..MaxK

\* What a store may answer to one search: at most MaxHits results, each a chunk
\* of the corpus with a score.  The same chunk may come back twice (a document
\* indexed twice), with the same or another score.
MaxHits == 2
RagChunkKeys == { <<"a.pdf", 1, 0>>, <<"b.pdf", 1, 0>> }
RagScores == {1, 2}
RagResults ==
    { [source_path |-> key[1], page |-> key[2], chunk_index |-> key[3],
       text |-> <<"t">>, score |-> sc] : key \in RagChunkKeys, sc \in RagScores }
HitSeqs == UNION { [1..n -> RagResults] : n \in 0..MaxHits }

\* what the language model may answer
LlmTexts == { "grounded answer", Refusal }

RagIdle ==
    /\ rag_pc = "idle" /\ rag_question = <<>> /\ rag_k = 0
    /\ rag_env = [api_key |-> TRUE, model |-> TRUE]
    /\ rag_hits = <<>> /\ rag_merged = <<>> /\ rag_deduped = <<>>
    /\ rag_retrieved = <<>> /\ rag_answer = "none" /\ rag_evidence = <<>>
    /\ rag_context = <<>> /\ rag_log = <<>>

SqIdle == sq_pc = "idle" /\ sq_question = <<>> /\ sq_out = <<>>

\* a store just created on an empty directory
StIdle ==
    /\ st_index = [none |-> TRUE, d |-> 0, xb |-> <<>>]
    /\ st_chunks = <<>>
    /\ fs_index = [exists |-> FALSE, d |-> 0, ntotal |-> 0, codes |-> <<>>]
    /\ fs_meta = [exists |-> FALSE, doc |-> <<>>]
    /\ st_last = [op |-> "new", raised |-> FALSE, batch_len |-> 0, results |-> <<>>,
                 before |-> 0]

HbIdle ==
    /\ hb_pc = "idle" /\ hb_topic = <<>>
    /\ hb_env = [api_key |-> TRUE, model |-> TRUE]
    /\ hb_toc = <<>> /\ hb_sections = <<>> /\ hb_i = 0
    /\ hb_retrieved = <<>> /\ hb_section_text = <<>>
    /\ hb_dir = FALSE
    /\ hb_file = [exists |-> FALSE, content |-> <<>>]
    /\ hb_log = <<>> /\ hb_result = [text |-> <<>>, returned |-> FALSE]

ChIdle ==
    /\ ch_pc = "idle" /\ ch_pages = <<>> /\ ch_max_tokens = 0
    /\ ch_overlap_tokens = 0 /\ ch_chunks = <<>> /\ ch_pages_seen = 0

\* rag_answer(question, store, k): the store answers hits[i] to the search of
\* sub-query i, the endpoint answers resp (with text content) if it is asked.
RagAnswer ==
    /\ rag_pc = "call"
    /\ LET subqueries == MakeSubqueries(rag_question)
       IN \E hits \in [1..Len(subqueries) -> HitSeqs], reply \in Replies(LlmTexts) :
            LET merged == Merged(hits)
                deduped == Dedupe(merged, <<>>)
                retrieved == TopK(deduped, rag_k)
                searches == SearchEvents(subqueries, rag_k)
                llm == ChatCompletion(rag_env, reply.resp, reply.content)
            IN  /\ rag_hits' = hits
                /\ rag_merged' = merged
                /\ rag_deduped' = deduped
                /\ rag_retrieved' = retrieved
                /\ IF NoEvidence(retrieved)
                   THEN /\ rag_pc' = "returned"
                        /\ rag_answer' = Refusal
                        /\ rag_evidence' = <<>>
                        /\ rag_context' = <<>>
                        /\ rag_log' = searches
                   ELSE /\ rag_pc' = IF llm.raised THEN "raised" ELSE "returned"
                        /\ rag_answer' = IF llm.raised THEN "none" ELSE llm.content
                        /\ rag_evidence' = IF llm.raised THEN <<>> ELSE retrieved
                        /\ rag_context' =
                              IF llm.raised THEN <<>> ELSE FormatRetrievedChunks(retrieved)
                        /\ rag_log' = searches \o <<(<<"chat_completion">>)>>
                              \o (IF llm.posted THEN <<(<<"http_post">>)>> ELSE <<>>)
    /\ UNCHANGED <<rag_question, rag_k, rag_env, sqVars, chVars, stVars, hbVars>>

RagInit ==
    /\ SqIdle /\ ChIdle /\ StIdle /\ HbIdle
    /\ rag_pc = "call"
    /\ rag_question \in RagQuestions
    /\ rag_k \in RagKs
    /\ rag_env \in Envs
    /\ rag_hits = <<>> /\ rag_merged = <<>> /\ rag_deduped = <<>>
    /\ rag_retrieved = <<>> /\ rag_answer = "none" /\ rag_evidence = <<>>
    /\ rag_context = <<>> /\ rag_log = <<>>

RagNext == RagAnswer

SpecRag == RagInit /\ [][RagNext]_vars

\* C1: whenever the merged, deduplicated, top-k retrieval result of rag_answer
\* is empty, the call returns the fixed refusal string with an empty evidence
\* list and an empty context, and chat_completion is not invoked (and no
\* request is posted) during the call.
C1_RefusalOnEmpty ==
    (rag_pc # "call" /\ TopK(Dedupe(Merged(rag_hits), <<>>), rag_k) = <<>>)
        => /\ rag_pc = "returned"
           /\ rag_answer = Refusal
           /\ rag_evidence = <<>>
           /\ rag_context = <<>>
           /\ \A i \in 1..Len(rag_log) :
                 rag_log[i][1] \notin {"chat_completion", "http_post"}

\* a call that searched, got results, kept none of them (k <= 0) and refused
C1_Witness ==
    /\ rag_pc = "returned"
    /\ rag_merged # <<>>
    /\ rag_retrieved = <<>>
    /\ rag_answer = Refusal
    /\ Len(rag_log) = 2

\* the scores pooled for one identity key
PooledScores(key) ==
    { rag_merged[i].score : i \in {j \in 1..Len(rag_merged) : IdentityKey(rag_merged[j]) = key} }

\* C2: after the merge step, every identity key (source_path, page,
\* chunk_index) of the pooled results has exactly one entry in the
\* deduplicated pool, and that entry's score is the maximum score pooled for
\* the key.
C2_DedupKeepsMax ==
    rag_pc # "call" =>
        \A m \in 1..Len(rag_merged) :
            LET key == IdentityKey(rag_merged[m])
                at == {i \in 1..Len(rag_deduped) : IdentityKey(rag_deduped[i]) = key}
            IN  /\ Cardinality(at) = 1
                /\ \A i \in at :
                     /\ rag_deduped[i].score \in PooledScores(key)
                     /\ \A sc \in PooledScores(key) : sc <= rag_deduped[i].score

\* two sub-queries returned the same chunk, the later one with the higher score
C2_Witness ==
    /\ rag_pc # "call"
    /\ Len(rag_hits) = 2
    /\ \E i \in 1..Len(rag_hits[1]), j \in 1..Len(rag_hits[2]) :
          /\ IdentityKey(rag_hits[1][i]) = IdentityKey(rag_hits[2][j])
          /\ rag_hits[1][i].score < rag_hits[2][j].score
    /\ Len(rag_deduped) = 2

\* C13: for a positive k the retrieval result of rag_answer is the
\* deduplicated pool sorted by score, highest first, and cut to its first k
\* entries: it has at most k entries, all of them of the pool with no identity
\* key twice, in non-increasing order of score, and no pooled chunk left out
\* has a strictly higher score than a chunk kept; every search asked for
\* at least max(4, k) candidates.
C13_TopKByScore ==
    (rag_pc # "call" /\ rag_k > 0) =>
        LET kept == { IdentityKey(rag_retrieved[i]) : i \in 1..Len(rag_retrieved) }
        IN  /\ Len(rag_retrieved) <= rag_k
            /\ Len(rag_retrieved) =
                  (IF Len(rag_deduped) < rag_k THEN Len(rag_deduped) ELSE rag_k)
            /\ \A i \in 1..Len(rag_retrieved) :
                  \E j \in 1..Len(rag_deduped) : rag_retrieved[i] = rag_deduped[j]
            /\ Cardinality(kept) = Len(rag_retrieved)
            /\ \A i \in 1..(Len(rag_retrieved) - 1) :
                  rag_retrieved[i].score >= rag_retrieved[i + 1].score
            /\ \A j \in 1..Len(rag_deduped) :
                  IdentityKey(rag_deduped[j]) \notin kept =>
                      \A i \in 1..Len(rag_retrieved) :
                          rag_deduped[j].score <= rag_retrieved[i].score
            /\ \A i \in 1..Len(rag_log) :
                  rag_log[i][1] = "search" =>
                      rag_log[i][3] >= MinPerQuery /\ rag_log[i][3] >= rag_k
            /\ (rag_pc = "returned" /\ rag_retrieved # <<>>) =>
                  rag_evidence = rag_retrieved

\* two chunks were pooled, the second with the higher score, and k = 1 kept
\* only that one
C13_Witness ==
    /\ rag_pc = "returned"
    /\ rag_k = 1
    /\ Len(rag_deduped) = 2
    /\ rag_deduped[1].score < rag_deduped[2].score
    /\ rag_evidence = <<rag_deduped[2]>>

\* the environment lacks the API key or the model id
ConfigMissing(env) == ~env.api_key \/ ~env.model

\* C11: a missing API key or model id makes the enclosing operation fail
\* before it performs any I/O: when rag_answer has failed on it no store search
\* was made, when generate_handbook has failed on it the output directory was
\* not created and no file was written, and chat_completion posted no request.
C11_ConfigErrorBeforeIO ==
    /\ (rag_pc = "raised" /\ ConfigMissing(rag_env)) =>
          \A i \in 1..Len(rag_log) : rag_log[i][1] \notin {"search", "http_post"}
    /\ (hb_pc = "raised" /\ ConfigMissing(hb_env)) =>
          /\ ~hb_dir
          /\ ~hb_file.exists
          /\ \A i \in 1..Len(hb_log) :
                hb_log[i].ev \notin {"mkdir", "write_text", "search", "http_post"}

----------------------------------------------------------------------------
(* _make_subqueries on its own *)

\* "What is X and what is Y?"
ExampleQuestion ==
    <<"W", "h", "a", "t", " ", "i", "s", " ", "X", " ", "a", "n", "d", " ",
      "w", "h", "a", "t", " ", "i", "s", " ", "Y", "?">>

Repeat(c, n) == [i \in 1..n |-> c]

\* a question of more than CommaMinLen characters with commas
LongQuestion ==
    Repeat("x", CommaMinLen - 2) \o <<",", " ", "Y", ",", "x", " ", "a", "n", "d", " ", "Y", "?">>

\* The questions of the model: every concatenation of at most MaxQTokens of
\* these pieces, and the two questions above.
MaxQTokens == 4
QTokens ==
    { <<"x">>, <<"Y">>, <<" ">>, <<" ", "a", "n", "d", " ">>,
      <<"\t", "A", "n", "d", "\n">>, <<"?">>, <<";">>, <<".">>, <<",">> }
\* questions whose parts differ only in case: "Y and y", "x; X? x"
CaseQuestions ==
    { <<"Y", " ", "a", "n", "d", " ", "y">>,
      <<"x", ";", " ", "X", "?", " ", "x">> }
SqQuestions ==
    { Concat(ts) : ts \in UNION { [1..n -> QTokens] : n \in 0..MaxQTokens } }
    \cup { ExampleQuestion, LongQuestion } \cup CaseQuestions

MakeSubqueriesCall ==
    /\ sq_pc = "call"
    /\ sq_pc' = "returned"
    /\ sq_out' = MakeSubqueries(sq_question)
    /\ UNCHANGED <<sq_question, ragVars, chVars, stVars, hbVars>>

SqInit ==
    /\ RagIdle /\ ChIdle /\ StIdle /\ HbIdle
    /\ sq_pc = "call"
    /\ sq_question \in SqQuestions
    /\ sq_out = <<>>

SqNext == MakeSubqueriesCall

SpecSubq == SqInit /\ [][SqNext]_vars

\* "What is X", "what is Y?", "What is X and what is Y"
ExampleLeft == SubSeq(ExampleQuestion, 1, 9)
ExampleRight == SubSeq(ExampleQuestion, 15, 24)
ExampleNoMark == SubSeq(ExampleQuestion, 1, 23)

\* C3 as stated: the question "What is X and what is Y?" decomposes into
\* exactly the three sub-queries "What is X and what is Y?", "What is X",
\* "what is Y?", in that order.
C3_ExampleThree ==
    (sq_pc = "returned" /\ sq_question = ExampleQuestion)
        => sq_out = <<ExampleQuestion, ExampleLeft, ExampleRight>>

\* C3 amended: the question "What is X and what is Y?" decomposes into exactly
\* four sub-queries: the three above followed by "What is X and what is Y",
\* the part before the question mark.
C3_ExampleFour ==
    (sq_pc = "returned" /\ sq_question = ExampleQuestion)
        => sq_out = <<ExampleQuestion, ExampleLeft, ExampleRight, ExampleNoMark>>

\* the example question has been decomposed
C3_Witness == sq_pc = "returned" /\ sq_question = ExampleQuestion /\ Len(sq_out) = 4

\* single spaces between words, no other whitespace, none at either end
WhitespaceNormalized(s) ==
    /\ s # <<>>
    /\ \A i \in 1..Len(s) : IsSpace(s[i]) => s[i] = " "
    /\ s[1] # " " /\ s[Len(s)] # " "
    /\ \A i \in 1..(Len(s) - 1) : ~(s[i] = " " /\ s[i + 1] = " ")

Punctuation == {".", ",", ":", ";", "?", "!"}

\* pairwise distinct when compared without regard to case
DistinctIgnoringCase(out) ==
    \A i, j \in 1..Len(out) : i # j => Lower(out[i]) # Lower(out[j])

\* the candidates of a question, each whitespace-normalized, in order
NormalizedCandidates(question) ==
    [i \in 1..Len(Candidates(question)) |-> Strip(CollapseWs(Candidates(question)[i]))]

\* the positions of the candidates that are non-empty and not seen earlier
FirstSeen(question) ==
    LET n == NormalizedCandidates(question)
    IN  { i \in 1..Len(n) :
            /\ n[i] # <<>>
            /\ \A j \in 1..(i - 1) : Lower(n[j]) # Lower(n[i]) }

\* out lists the first-seen candidates in their order, up to the cap
InFirstSeenOrder(question, out) ==
    LET n == NormalizedCandidates(question)
        at == Ascending(FirstSeen(question))
    IN  /\ Len(out) = (IF Len(at) < SubqueryCap THEN Len(at) ELSE SubqueryCap)
        /\ \A i \in 1..Len(out) : out[i] = n[at[i]]

\* C12 as stated: every sub-query returned by _make_subqueries, the first one
\* included, is whitespace-normalized and ends with no punctuation character;
\* the sub-queries are pairwise distinct without regard to case, in first-seen
\* order, and at most 4.
C12_NormalizedNoPunctuation ==
    sq_pc = "returned" =>
        /\ \A i \in 1..Len(sq_out) :
              /\ WhitespaceNormalized(sq_out[i])
              /\ sq_out[i][Len(sq_out[i])] \notin Punctuation
        /\ DistinctIgnoringCase(sq_out)
        /\ InFirstSeenOrder(sq_question, sq_out)
        /\ Len(sq_out) <= SubqueryCap

\* C12 amended: every sub-query returned by _make_subqueries is
\* whitespace-normalized; the sub-queries are pairwise distinct without regard
\* to case, are the first-seen candidates in their order, and are at most 4;
\* the first is the whitespace-normalized question with its punctuation kept.
C12_NormalizedDistinctCapped ==
    sq_pc = "returned" =>
        /\ \A i \in 1..Len(sq_out) : WhitespaceNormalized(sq_out[i])
        /\ DistinctIgnoringCase(sq_out)
        /\ InFirstSeenOrder(sq_question, sq_out)
        /\ Len(sq_out) <= SubqueryCap
        /\ Strip(sq_question) # <<>> =>
              /\ sq_out # <<>>
              /\ sq_out[1] = Strip(CollapseWs(sq_question))

\* a question whose parts differ only in case was decomposed
C12_Witness ==
    /\ sq_pc = "returned"
    /\ sq_question \in CaseQuestions
    /\ Len(sq_out) = 2
    /\ \E i, j \in 1..Len(NormalizedCandidates(sq_question)) :
          /\ i # j
          /\ NormalizedCandidates(sq_question)[i] # NormalizedCandidates(sq_question)[j]
          /\ Lower(NormalizedCandidates(sq_question)[i])
                = Lower(NormalizedCandidates(sq_question)[j])

----------------------------------------------------------------------------
(* backend/chunking.py *)

NL2 == <<"\n", "\n">>

RECURSIVE StripNonEmpty(_)
\* [p.strip() for p in raw_parts if p.strip()]
StripNonEmpty(parts) ==
    IF parts = <<>> THEN <<>>
    ELSE (IF Strip(Head(parts)) # <<>> THEN <<Strip(Head(parts))>> ELSE <<>>)
         \o StripNonEmpty(Tail(parts))

SplitIntoParagraphs(text) == StripNonEmpty(SplitSep(text, NL2))

\* max(1, len(s.split()))
ApproxTokenCountChars(s) == IF Len(s) > 1 THEN Len(s) ELSE 1
ApproxTokenCount(s) ==
    IF Len(SplitWords(s)) > 1 THEN Len(SplitWords(s)) ELSE 1

\* overlap_tokens >= max_tokens raises ValueError
RejectsOnlyLarger(max_tokens, overlap_tokens) == overlap_tokens > max_tokens
InvalidParams(max_tokens, overlap_tokens) == overlap_tokens >= max_tokens

\* words[-overlap_tokens:] if len(words) > overlap_tokens else words
OverlapWordsFromStart(words, overlap_tokens) ==
    IF Len(words) > overlap_tokens THEN SubSeq(words, 1, overlap_tokens) ELSE words
OverlapWords(words, overlap_tokens) ==
    IF Len(words) > overlap_tokens
    THEN SubSeq(words, Len(words) - overlap_tokens + 1, Len(words))
    ELSE words

\* Chunk(text, page, chunk_index, source_path)
Chunk(text, page, chunk_index, source_path) ==
    [text |-> text, page |-> page, chunk_index |-> chunk_index,
     source_path |-> source_path]

\* The buffer a page starts with.  st is the state the previous page left.
PageBufferKept(st) == st
PageBuffer(st) == [st EXCEPT !.parts = <<>>, !.tokens = 0, !.chunk_index = 0]

\* One iteration of the loop over the paragraphs of a page.
ParaStep(st, para, page_num, source_path, max_tokens, overlap_tokens) ==
    LET para_tokens == ApproxTokenCount(para)
        full == st.parts # <<>> /\ st.tokens + para_tokens > max_tokens
        chunk_text == Strip(Join(NL2, st.parts))
        seed == Join(<<" ">>, OverlapWords(SplitWords(chunk_text), overlap_tokens))
        emitted ==
            IF ~full THEN st
            ELSE [chunks |-> Append(st.chunks,
                                    Chunk(chunk_text, page_num, st.chunk_index, source_path)),
                  chunk_index |-> st.chunk_index + 1,
                  parts |-> IF overlap_tokens > 0 THEN <<seed>> ELSE <<>>,
                  tokens |-> IF overlap_tokens > 0 THEN ApproxTokenCount(seed) ELSE 0]
    IN  [emitted EXCEPT !.parts = Append(emitted.parts, para),
                        !.tokens = emitted.tokens + para_tokens]

RECURSIVE ParaLoop(_, _, _, _, _, _)
ParaLoop(st, paragraphs, page_num, source_path, max_tokens, overlap_tokens) ==
    IF paragraphs = <<>> THEN st
    ELSE ParaLoop(ParaStep(st, Head(paragraphs), page_num, source_path,
                           max_tokens, overlap_tokens),
                  Tail(paragraphs), page_num, source_path, max_tokens, overlap_tokens)

\* the final chunk of the page
FlushNever(st, page_num, source_path) == st
Flush(st, page_num, source_path) ==
    IF st.parts = <<>> THEN st
    ELSE [st EXCEPT !.chunks =
            Append(st.chunks, Chunk(Strip(Join(NL2, st.parts)), page_num,
                                    st.chunk_index, source_path))]

\* One iteration of the loop over the pages.
PageStep(st, page_obj, source_path, max_tokens, overlap_tokens) ==
    IF Strip(page_obj.text) = <<>> THEN st
    ELSE Flush(ParaLoop(PageBuffer(st), SplitIntoParagraphs(page_obj.text),
                        page_obj.page, source_path, max_tokens, overlap_tokens),
               page_obj.page, source_path)

RECURSIVE PageLoop(_, _, _, _, _)
PageLoop(st, pages, source_path, max_tokens, overlap_tokens) ==
    IF pages = <<>> THEN st
    ELSE PageLoop(PageStep(st, Head(pages), source_path, max_tokens, overlap_tokens),
                  Tail(pages), source_path, max_tokens, overlap_tokens)

\* chunk_pages(pages, source_path, max_tokens, overlap_tokens): what it raises
\* or returns, and how many pages the loop took up.
ChunkPages(pages, source_path, max_tokens, overlap_tokens) ==
    IF InvalidParams(max_tokens, overlap_tokens)
    THEN [raised |-> TRUE, chunks |-> <<>>, pages_seen |-> 0]
    ELSE [raised |-> FALSE,
          chunks |-> PageLoop([chunks |-> <<>>, parts |-> <<>>, tokens |-> 0,
                               chunk_index |-> 0],
                              pages, source_path, max_tokens, overlap_tokens).chunks,
          pages_seen |-> Len(pages)]

SourcePath == "doc.pdf"

\* The documents of the model.  Page 1 is at most MaxParas pieces joined by
\* blank lines; the pieces hold the words a..f, blank pieces and stray
\* whitespace included.  Page 2, when there is one, is blank or holds the
\* words p, q, r.
MaxParas == 3
ParaPool ==
    { <<>>, <<"a">>, <<"b", " ", "c">>, <<" ", "d", "\n", "e", " ", "f", " ">> }
Page1Texts == { Join(NL2, ps) : ps \in UNION { [1..n -> ParaPool] : n \in 0..MaxParas } }
Page2Texts ==
    { <<>>, <<" ", "\n">>, <<"p">>, <<"p", "\n", "\n", "q", " ", "r">> }
Documents ==
    { <<>> }
    \cup { <<[page |-> 1, text |-> t]>> : t \in Page1Texts }
    \cup { <<[page |-> 1, text |-> t], [page |-> 2, text |-> u]>> :
             t \in Page1Texts, u \in Page2Texts }

\* max_tokens ranges over 1..MaxTok, overlap_tokens over 0..MaxTok
MaxTok == 3

\* the defaults max_tokens = 800 and overlap_tokens = 120
DefaultMaxTokens == 800
DefaultOverlapTokens == 120

\* n words separated by single spaces
WordsLine(n) == Join(<<" ">>, [i \in 1..n |-> <<"w">>])

\* A document of two pages: 50 words in three paragraphs of 20, 20 and 10
\* words on page 1, and a page 2 of whitespace only.
ExampleDocument ==
    << [page |-> 1,
        text |-> Join(NL2, <<WordsLine(20), WordsLine(20), WordsLine(10)>>)],
       [page |-> 2, text |-> <<" ", "\n", " ">>] >>

ChunkPagesCall ==
    /\ ch_pc = "call"
    /\ LET r == ChunkPages(ch_pages, SourcePath, ch_max_tokens, ch_overlap_tokens)
       IN  /\ ch_pc' = IF r.raised THEN "raised" ELSE "returned"
           /\ ch_chunks' = r.chunks
           /\ ch_pages_seen' = r.pages_seen
    /\ UNCHANGED <<ch_pages, ch_max_tokens, ch_overlap_tokens, sqVars, ragVars, stVars, hbVars>>

ChInit ==
    /\ SqIdle /\ RagIdle /\ StIdle /\ HbIdle
    /\ ch_pc = "call"
    /\ \/ /\ ch_pages \in Documents
          /\ ch_max_tokens \in 1..MaxTok
          /\ ch_overlap_tokens \in 0..MaxTok
       \/ /\ ch_pages = ExampleDocument
          /\ ch_max_tokens = DefaultMaxTokens
          /\ ch_overlap_tokens = DefaultOverlapTokens
    /\ ch_chunks = <<>>
    /\ ch_pages_seen = 0

ChNext == ChunkPagesCall

SpecChunk == ChInit /\ [][ChNext]_vars

\* the words of the text of page p of the input
PageWords(p) ==
    UNION { { SplitWords(ch_pages[i].text)[w] : w \in 1..Len(SplitWords(ch_pages[i].text)) } :
            i \in {j \in 1..Len(ch_pages) : ch_pages[j].page = p} }

\* the last n words of a word sequence
LastWords(words, n) == SubSeq(words, Len(words) - n + 1, Len(words))

\* C4: with overlap_tokens = t > 0, for every two consecutive chunks i, i+1 of
\* one page, chunk i+1 begins with exactly min(t, word_count(chunk i)) words
\* that are the last words of chunk i: its leading part, up to the first blank
\* line, consists of those words and the new text follows it.
C4_OverlapIsSuffix ==
    (ch_pc = "returned" /\ ch_overlap_tokens > 0) =>
        \A i, j \in 1..Len(ch_chunks) :
            (/\ ch_chunks[i].page = ch_chunks[j].page
             /\ ch_chunks[j].chunk_index = ch_chunks[i].chunk_index + 1) =>
                LET prev == SplitWords(ch_chunks[i].text)
                    next == SplitWords(ch_chunks[j].text)
                    m == IF ch_overlap_tokens < Len(prev)
                         THEN ch_overlap_tokens ELSE Len(prev)
                    lead == Head(SplitSep(ch_chunks[j].text, NL2))
                IN  /\ m >= 1
                    /\ Len(next) > m
                    /\ SubSeq(next, 1, m) = LastWords(prev, m)
                    /\ SplitWords(lead) = LastWords(prev, m)

\* a page cut into three chunks with an overlap shorter than the second chunk
C4_Witness ==
    /\ ch_pc = "returned"
    /\ ch_overlap_tokens > 0
    /\ \E i \in 1..Len(ch_chunks) :
          /\ ch_chunks[i].chunk_index = 2
          /\ Len(SplitWords(ch_chunks[i - 1].text)) > ch_overlap_tokens

\* C5: for pages given in ascending order, every chunk of a page precedes
\* every chunk of a later page, every chunk holds words of its own page only,
\* and within a page the chunk_index values are 0, 1, 2, ... in output order.
C5_PageOrderAndIndex ==
    ch_pc = "returned" =>
        /\ \A i, j \in 1..Len(ch_chunks) :
              ch_chunks[i].page < ch_chunks[j].page => i < j
        /\ \A i \in 1..Len(ch_chunks) :
              /\ \E n \in 1..Len(ch_pages) : ch_pages[n].page = ch_chunks[i].page
              /\ \A w \in 1..Len(SplitWords(ch_chunks[i].text)) :
                    SplitWords(ch_chunks[i].text)[w] \in PageWords(ch_chunks[i].page)
              /\ ch_chunks[i].source_path = SourcePath
              /\ ch_chunks[i].chunk_index =
                    Cardinality({j \in 1..(i - 1) : ch_chunks[j].page = ch_chunks[i].page})

\* two pages, each cut into two chunks or more
C5_Witness ==
    /\ ch_pc = "returned"
    /\ \E i, j \in 1..Len(ch_chunks) :
          /\ ch_chunks[i].page = 1 /\ ch_chunks[i].chunk_index = 1
          /\ ch_chunks[j].page = 2 /\ ch_chunks[j].chunk_index = 1

\* C6: a call with overlap_tokens >= max_tokens raises ValueError before the
\* loop takes up any page, and produces no chunk.
C6_InvalidParamsRaise ==
    (ch_pc # "call" /\ ch_overlap_tokens >= ch_max_tokens) =>
        /\ ch_pc = "raised"
        /\ ch_chunks = <<>>
        /\ ch_pages_seen = 0

\* overlap_tokens = max_tokens on a document with text raised
C6_Witness ==
    /\ ch_pc = "raised"
    /\ ch_overlap_tokens = ch_max_tokens
    /\ Len(ch_pages) = 2
    /\ Strip(ch_pages[1].text) # <<>>

\* the chunks of page p, in output order
PageChunks(p) == SelectSeq(ch_chunks, LAMBDA c : c.page = p)

\* C18: chunk_pages emits no chunk for a page whose text is empty or only
\* whitespace, and exactly one chunk, with chunk_index 0, for a non-blank page
\* whose word count does not exceed max_tokens; so the two-page document with
\* 50 words in 3 paragraphs on page 1 and a blank page 2, chunked with
\* max_tokens = 800 and overlap_tokens = 120, yields exactly one chunk, for
\* page 1, with chunk_index 0.
C18_BlankAndSmallPages ==
    ch_pc = "returned" =>
        /\ \A i \in 1..Len(ch_pages) :
              LET text == ch_pages[i].text
                  cs == PageChunks(ch_pages[i].page)
              IN  /\ Strip(text) = <<>> => cs = <<>>
                  /\ (Strip(text) # <<>> /\ Len(SplitWords(text)) <= ch_max_tokens) =>
                        /\ Len(cs) = 1
                        /\ cs[1].chunk_index = 0
                        /\ SplitWords(cs[1].text) = SplitWords(text)
        /\ (/\ ch_pages = ExampleDocument
            /\ ch_max_tokens = DefaultMaxTokens
            /\ ch_overlap_tokens = DefaultOverlapTokens) =>
              /\ Len(SplitWords(ch_pages[1].text)) = 50
              /\ Len(SplitIntoParagraphs(ch_pages[1].text)) = 3
              /\ Len(ch_chunks) = 1
              /\ ch_chunks[1].page = 1
              /\ ch_chunks[1].chunk_index = 0

\* the example document has been chunked with the default parameters
C18_Witness ==
    /\ ch_pc = "returned"
    /\ ch_pages = ExampleDocument
    /\ ch_max_tokens = DefaultMaxTokens
    /\ Len(ch_chunks) = 1

\* the text of a chunk made of the paragraphs group, after the chunk prev_text
\* when it is not the first of its page
GroupText(prev_text, group, first) ==
    IF first \/ ch_overlap_tokens = 0 THEN Join(NL2, group)
    ELSE Join(<<" ">>, OverlapWords(SplitWords(prev_text), ch_overlap_tokens))
         \o NL2 \o Join(NL2, group)

\* The chunks cs are the paragraphs paras cut into Len(cs) consecutive
\* non-empty groups, one group per chunk: each chunk is its group's
\* paragraphs, whole and in order, after the overlap of the chunk before.
PlacedWhole(paras, cs) ==
    \E cuts \in SUBSET (1..(Len(paras) - 1)) :
        LET ends == Ascending(cuts \cup {Len(paras)})
        IN  /\ Len(cs) = Len(ends)
            /\ \A r \in 1..Len(ends) :
                  LET from == IF r = 1 THEN 1 ELSE ends[r - 1] + 1
                  IN  cs[r].text =
                        GroupText(IF r = 1 THEN <<>> ELSE cs[r - 1].text,
                                  SubSeq(paras, from, ends[r]), r = 1)

\* C19: in a run with valid parameters, for every non-blank page, each
\* paragraph of the page is placed whole, as new text, in exactly one chunk of
\* the page, in paragraph order; every chunk holds at least one new paragraph,
\* so the page yields at most as many chunks as it has paragraphs and no
\* chunk text is empty; and if every paragraph has at most
\* max_tokens - overlap_tokens words, every chunk has at most max_tokens words.
C19_ParagraphsWhole ==
    ch_pc = "returned" =>
        \A i \in 1..Len(ch_pages) :
            Strip(ch_pages[i].text) # <<>> =>
                LET paras == SplitIntoParagraphs(ch_pages[i].text)
                    cs == PageChunks(ch_pages[i].page)
                IN  /\ PlacedWhole(paras, cs)
                    /\ Len(cs) >= 1 /\ Len(cs) <= Len(paras)
                    /\ \A r \in 1..Len(cs) : cs[r].text # <<>>
                    /\ (\A n \in 1..Len(paras) :
                           Len(SplitWords(paras[n])) <= ch_max_tokens - ch_overlap_tokens)
                         => \A r \in 1..Len(cs) :
                               Len(SplitWords(cs[r].text)) <= ch_max_tokens

\* a page of three paragraphs, none longer than max_tokens - overlap_tokens,
\* was cut into two chunks with an overlap
C19_Witness ==
    /\ ch_pc = "returned"
    /\ ch_overlap_tokens > 0
    /\ Len(ch_pages) >= 1
    /\ Len(SplitIntoParagraphs(ch_pages[1].text)) = 3
    /\ \A n \in 1..3 :
          Len(SplitWords(SplitIntoParagraphs(ch_pages[1].text)[n]))
            <= ch_max_tokens - ch_overlap_tokens
    /\ Len(PageChunks(1)) = 2

----------------------------------------------------------------------------
(* backend/embeddings.py and the faiss index *)

\* embed_texts on one text: a fixed vector per text.  The model's texts are
\* the chunk texts t1, t2 and the queries q1, q2.
Embed(text) ==
    CASE text = "t1" -> <<1, 0>>
      [] text = "t2" -> <<0, 1>>
      [] text = "q1" -> <<2, 1>>
      [] OTHER -> <<1, 1>>

\* embed_texts(texts)
EmbedTexts(texts) == [i \in 1..Len(texts) |-> Embed(texts[i])]

RECURSIVE Dot(_, _)
\* the inner product of two vectors
Dot(u, v) == IF u = <<>> THEN 0 ELSE Head(u) * Head(v) + Dot(Tail(u), Tail(v))

\* self.index = None
NoIndex == [none |-> TRUE, d |-> 0, xb |-> <<>>]

\* faiss.IndexFlatIP(dim): dimension and stored vectors
IndexFlatIP(dim) == [none |-> FALSE, d |-> dim, xb |-> <<>>]

\* a path at which no file exists
NoIndexFile == [exists |-> FALSE, d |-> 0, ntotal |-> 0, codes |-> <<>>]
NoMetaFile == [exists |-> FALSE, doc |-> <<>>]

\* index.add(vectors)
IndexAdd(index, vectors) == [index EXCEPT !.xb = index.xb \o vectors]

\* index.search(q_vec, k): the k best (score, id) pairs by inner product,
\* best first, equal scores in id order; padded with id -1 when the index
\* holds fewer than k vectors.  Ids are positions, from 1.
IndexSearch(index, q_vec, k) ==
    LET n == Len(index.xb)
        score(i) == Dot(index.xb[i], q_vec)
        before(i) == {j \in 1..n : score(j) > score(i) \/ (score(j) = score(i) /\ j < i)}
    IN  [r \in 1..k |->
            IF r <= n
            THEN LET i == CHOOSE x \in 1..n : Cardinality(before(x)) = r - 1
                 IN  <<score(i), i>>
            ELSE <<0, -1>>]

\* faiss.write_index: the file holds the dimension, the count and the vectors'
\* components in one run
WriteIndex(index) ==
    [exists |-> TRUE, d |-> index.d, ntotal |-> Len(index.xb),
     codes |-> Concat(index.xb)]

\* faiss.read_index
ReadIndex(file) ==
    [none |-> FALSE, d |-> file.d,
     xb |-> [i \in 1..file.ntotal |->
                SubSeq(file.codes, (i - 1) * file.d + 1, i * file.d)]]

\* one value of a JSON document
JsonString(s) == [type |-> "string", str |-> s, num |-> 0]
JsonNumber(n) == [type |-> "number", str |-> "", num |-> n]

\* meta_path.write_text(json.dumps(chunks)): an array of objects, each a list
\* of (name, value) members
JsonDumps(chunks) ==
    [exists |-> TRUE,
     doc |-> [i \in 1..Len(chunks) |->
                << <<"text", JsonString(chunks[i].text)>>,
                   <<"page", JsonNumber(chunks[i].page)>>,
                   <<"chunk_index", JsonNumber(chunks[i].chunk_index)>>,
                   <<"source_path", JsonString(chunks[i].source_path)>> >>]]

\* the value of member key of a parsed object
Member(obj, key) ==
    LET v == obj[CHOOSE m \in 1..Len(obj) : obj[m][1] = key][2]
    IN  IF v.type = "number" THEN v.num ELSE v.str

\* json.loads(meta_path.read_text())
JsonLoads(file) ==
    [i \in 1..Len(file.doc) |->
        [text |-> Member(file.doc[i], "text"), page |-> Member(file.doc[i], "page"),
         chunk_index |-> Member(file.doc[i], "chunk_index"),
         source_path |-> Member(file.doc[i], "source_path")]]

----------------------------------------------------------------------------
(* backend/vector_store_faiss.py: FaissVectorStore *)

\* a load that reads the metadata file whenever it exists
LoadMetaAlone(index_file, meta_file) ==
    [index |-> IF index_file.exists /\ meta_file.exists
               THEN ReadIndex(index_file) ELSE NoIndex,
     chunks |-> IF meta_file.exists THEN JsonLoads(meta_file) ELSE <<>>]

\* _load: the (index, chunks) a store starts with on a directory
Load(index_file, meta_file) ==
    IF index_file.exists /\ meta_file.exists
    THEN [index |-> ReadIndex(index_file), chunks |-> JsonLoads(meta_file)]
    ELSE [index |-> NoIndex, chunks |-> <<>>]

\* _save: the files after the call and whether it raised.  fail names the
\* write that raises, if any; a write that raises leaves its file as it was.
SaveMetaOnly(index, chunks, index_file, meta_file, fail) ==
    [index_file |-> index_file, meta_file |-> JsonDumps(chunks), raised |-> FALSE]
Save(index, chunks, index_file, meta_file, fail) ==
    IF ~index.none /\ fail = "write_index"
    THEN [index_file |-> index_file, meta_file |-> meta_file, raised |-> TRUE]
    ELSE LET written == IF ~index.none THEN WriteIndex(index) ELSE index_file
         IN  IF fail = "write_meta"
             THEN [index_file |-> written, meta_file |-> meta_file, raised |-> TRUE]
             ELSE [index_file |-> written, meta_file |-> JsonDumps(chunks),
                   raised |-> FALSE]

RECURSIVE TextsOf(_)
\* [c["text"] for c in chunk_dicts]
TextsOf(chunk_dicts) ==
    IF chunk_dicts = <<>> THEN <<>>
    ELSE <<Head(chunk_dicts).text>> \o TextsOf(Tail(chunk_dicts))

\* if self.index is None or not self.chunks
EmptyStoreUnchecked(index, chunks) == FALSE
EmptyStore(index, chunks) == index.none \/ chunks = <<>>

\* search(query, k) on a store holding (index, chunks): the results, or
\* raised when the index is None at self.index.search (AttributeError) or an
\* id of the index has no entry in chunks (IndexError)
StoreSearch(index, chunks, query, k) ==
    IF EmptyStore(index, chunks) THEN [raised |-> FALSE, results |-> <<>>]
    ELSE IF index.none THEN [raised |-> TRUE, results |-> <<>>]
    ELSE LET found == IndexSearch(index, Embed(query), k)
             kept == Ascending({r \in 1..Len(found) : found[r][2] >= 0})
         IN  IF \E r \in 1..Len(kept) : found[kept[r]][2] > Len(chunks)
             THEN [raised |-> TRUE, results |-> <<>>]
             ELSE [raised |-> FALSE,
                   results |->
                     [r \in 1..Len(kept) |->
                        LET item == chunks[found[kept[r]][2]]
                        IN  [text |-> item.text, page |-> item.page,
                             chunk_index |-> item.chunk_index,
                             source_path |-> item.source_path,
                             score |-> found[kept[r]][1]]]]

\* The chunks, batches and queries of the model.  The corpus is kept at
\* MaxCorpus vectors at most, a batch holds up to two chunks, and a search
\* asks for one result or for more results than the corpus can hold.
MaxCorpus == 2
BatchSizes == {0, 1, 2}
SearchKs == {1, MaxCorpus + 1}
StoreChunks ==
    { [text |-> "t1", page |-> 1, chunk_index |-> 0, source_path |-> "a.pdf"],
      [text |-> "t2", page |-> 1, chunk_index |-> 1, source_path |-> "a.pdf"] }
Batches == UNION { [1..n -> StoreChunks] : n \in BatchSizes }
StoreQueries == {"q1", "q2"}

\* the number of vectors of an index
NTotal(index) == IF index.none THEN 0 ELSE Len(index.xb)

\* the last call: its name, whether it raised, the size of its batch (add),
\* what it returned (search) and how many metadata entries the instance held
\* when the call was made
Last(op, raised, batch, results) ==
    [op |-> op, raised |-> raised, batch_len |-> Len(batch), results |-> results,
     before |-> Len(st_chunks)]

\* add_chunks(chunk_dicts); fail names the step that raises, if any
AddChunks ==
    \E batch \in Batches, fail \in {"none", "embed", "write_index", "write_meta"} :
        /\ NTotal(st_index) + Len(batch) <= MaxCorpus
        /\ Len(st_chunks) + Len(batch) <= MaxCorpus
        /\ IF batch = <<>>
           THEN /\ fail = "none"
                /\ st_last' = Last("add", FALSE, batch, <<>>)
                /\ UNCHANGED <<st_index, st_chunks, fs_index, fs_meta>>
           ELSE IF fail = "embed"
           THEN /\ st_last' = Last("add", TRUE, batch, <<>>)
                /\ UNCHANGED <<st_index, st_chunks, fs_index, fs_meta>>
           ELSE LET vectors == EmbedTexts(TextsOf(batch))
                    index == IndexAdd(IF st_index.none
                                      THEN IndexFlatIP(Len(vectors[1])) ELSE st_index,
                                      vectors)
                    chunks == st_chunks \o batch
                    saved == Save(index, chunks, fs_index, fs_meta, fail)
                IN  /\ st_index' = index
                    /\ st_chunks' = chunks
                    /\ fs_index' = saved.index_file
                    /\ fs_meta' = saved.meta_file
                    /\ st_last' = Last("add", saved.raised, batch, <<>>)
        /\ UNCHANGED <<sqVars, ragVars, chVars, hbVars>>

\* a reset that clears the instance and leaves the files
ResetMemoryOnly ==
    /\ st_index' = NoIndex
    /\ st_chunks' = <<>>
    /\ st_last' = Last("reset", FALSE, <<>>, <<>>)
    /\ UNCHANGED <<fs_index, fs_meta, sqVars, ragVars, chVars, hbVars>>

\* reset(); fail names the unlink that raises, if any
Reset ==
    \E fail \in {"none", "unlink_index", "unlink_meta"} :
        /\ fail = "unlink_index" => fs_index.exists
        /\ fail = "unlink_meta" => fs_meta.exists
        /\ st_index' = NoIndex
        /\ st_chunks' = <<>>
        /\ fs_index' = IF fail = "unlink_index" THEN fs_index ELSE NoIndexFile
        /\ fs_meta' = IF fail \in {"unlink_index", "unlink_meta"} THEN fs_meta ELSE NoMetaFile
        /\ st_last' = Last("reset", fail # "none", <<>>, <<>>)
        /\ UNCHANGED <<sqVars, ragVars, chVars, hbVars>>

\* FaissVectorStore(store_dir) on the same directory: a fresh instance
NewStore ==
    /\ st_index' = Load(fs_index, fs_meta).index
    /\ st_chunks' = Load(fs_index, fs_meta).chunks
    /\ st_last' = Last("new", FALSE, <<>>, <<>>)
    /\ UNCHANGED <<fs_index, fs_meta, sqVars, ragVars, chVars, hbVars>>

\* search(query, k)
Search ==
    \E query \in StoreQueries, k \in SearchKs :
        LET r == StoreSearch(st_index, st_chunks, query, k)
        IN  /\ st_last' = Last("search", r.raised, <<>>, r.results)
            /\ UNCHANGED <<st_index, st_chunks, fs_index, fs_meta, sqVars, ragVars, chVars, hbVars>>

StInit == SqIdle /\ RagIdle /\ ChIdle /\ StIdle /\ HbIdle

StNext == AddChunks \/ Reset \/ NewStore \/ Search

SpecStore == StInit /\ [][StNext]_vars

\* vector i of the index is the vector of chunks[i], for every i, and there
\* are as many vectors as chunks
Aligned(index, chunks) ==
    /\ NTotal(index) = Len(chunks)
    /\ \A i \in 1..Len(chunks) : index.xb[i] = Embed(chunks[i].text)

\* C7: after any sequence of add_chunks, reset and re-instantiation, a failure
\* partway through an add or a save included, the index holds as many vectors
\* as there are metadata entries and entry i describes vector i, in memory
\* and in the pair of files a later load reads.
C7_IndexMatchesMetadata ==
    /\ Aligned(st_index, st_chunks)
    /\ (fs_index.exists /\ fs_meta.exists)
          => Aligned(ReadIndex(fs_index), JsonLoads(fs_meta))

\* a fresh instance on the directory holds what the store holds, and every
\* search on it ends as it does on the store
ReloadAgrees ==
    LET fresh == Load(fs_index, fs_meta)
    IN  /\ fresh.chunks = st_chunks
        /\ fresh.index = st_index
        /\ \A query \in StoreQueries, k \in SearchKs :
              StoreSearch(fresh.index, fresh.chunks, query, k)
                = StoreSearch(st_index, st_chunks, query, k)

AllSearchesEmpty(index, chunks) ==
    \A query \in StoreQueries, k \in SearchKs :
        StoreSearch(index, chunks, query, k) = [raised |-> FALSE, results |-> <<>>]

\* the instance holds no index and no metadata
NothingInMemory == st_index.none /\ st_chunks = <<>>

\* C14: searching a local store to which no chunk was added (one created on a
\* fresh directory, or one that was reset) returns the empty sequence for every
\* query and every k, never an error, and changes neither the instance nor
\* the files.
C14_EmptyStoreSearch ==
    /\ [](/\ NothingInMemory => AllSearchesEmpty(st_index, st_chunks)
          /\ st_last.op = "reset" => NothingInMemory
          /\ (st_last.op = "new" /\ ~fs_index.exists /\ ~fs_meta.exists)
                => NothingInMemory
          /\ (st_last.op = "search" /\ NothingInMemory)
                => (~st_last.raised /\ st_last.results = <<>>))
    /\ [][(NothingInMemory /\ st_last'.op = "search")
            => UNCHANGED <<st_index, st_chunks, fs_index, fs_meta>>]_vars

\* a store that holds nothing has been searched
C14_Witness ==
    /\ st_last.op = "search"
    /\ st_last.before = 0
    /\ NothingInMemory
    /\ ~fs_index.exists /\ ~fs_meta.exists
    /\ st_last.results = <<>>

\* s is a prefix of t
IsPrefix(s, t) == Len(s) <= Len(t) /\ SubSeq(t, 1, Len(s)) = s

\* C15: after reset() has returned, whatever add_chunks preceded it, the
\* instance holds no index and no metadata and neither file exists, so every
\* search returns the empty sequence and a fresh instance on the directory
\* starts empty; and add_chunks and search never shrink the corpus: add_chunks
\* only appends to the metadata and to the vectors, leaving the existing
\* entries as they were.
C15_ResetEmptiesOnlyResetShrinks ==
    /\ []((st_last.op = "reset" /\ ~st_last.raised) =>
            /\ NothingInMemory
            /\ ~fs_index.exists /\ ~fs_meta.exists
            /\ AllSearchesEmpty(st_index, st_chunks)
            /\ Load(fs_index, fs_meta) = [index |-> NoIndex, chunks |-> <<>>])
    /\ [][st_last'.op \in {"add", "search"} =>
            /\ IsPrefix(st_chunks, st_chunks')
            /\ NTotal(st_index) <= NTotal(st_index')
            /\ ~st_index.none => IsPrefix(st_index.xb, st_index'.xb)
            /\ (st_last'.op = "add" /\ ~st_last'.raised) =>
                  /\ Len(st_chunks') = Len(st_chunks) + st_last'.batch_len
                  /\ NTotal(st_index') = NTotal(st_index) + st_last'.batch_len]_vars

\* a store holding two chunks has been reset
C15_Witness ==
    /\ st_last.op = "reset" /\ ~st_last.raised
    /\ st_last.before = 2
    /\ NothingInMemory
    /\ ~fs_index.exists /\ ~fs_meta.exists

\* exactly one of the two files exists
PartialFiles == fs_index.exists # fs_meta.exists

\* C16: an instance created on a directory where exactly one of the index file
\* and the metadata file exists starts with no index and empty metadata, its
\* search returns the empty sequence, and a following add_chunks rewrites both
\* files so that they hold the added batch and nothing else.
C16_PartialLoadIsFresh ==
    /\ []((st_last.op = "new" /\ PartialFiles) =>
            /\ NothingInMemory
            /\ AllSearchesEmpty(st_index, st_chunks))
    /\ [][(PartialFiles /\ NothingInMemory
             /\ st_last'.op = "add" /\ ~st_last'.raised /\ st_last'.batch_len > 0) =>
            /\ fs_index'.exists /\ fs_meta'.exists
            /\ Len(st_chunks') = st_last'.batch_len
            /\ JsonLoads(fs_meta') = st_chunks'
            /\ ReadIndex(fs_index') = st_index'
            /\ Aligned(ReadIndex(fs_index'), JsonLoads(fs_meta'))]_vars

\* an instance has been created on a directory holding only one of the files
C16_Witness ==
    /\ st_last.op = "new"
    /\ PartialFiles
    /\ NothingInMemory

----------------------------------------------------------------------------
(* backend/handbook_service.py *)

\* str.isdigit on one character
IsDigit(c) == c \in {"0", "1", "2", "3", "4", "5", "6", "7", "8", "9"}

\* [ln.strip() for ln in toc_text.splitlines() if ln.strip()]
SplitLines(text) == StripNonEmpty(SplitSep(text, <<"\n">>))

\* len(ln) >= 2 and ln[0].isdigit() and "." in ln[:4]
HeadingMinLen == 2
HeadingDotWithin == 4
LooksNumberedAnyPeriod(ln) ==
    Len(ln) >= HeadingMinLen /\ IsDigit(ln[1]) /\ Contains(ln, <<".">>)
LooksNumbered(ln) ==
    /\ Len(ln) >= HeadingMinLen
    /\ IsDigit(ln[1])
    /\ Contains(Take(ln, HeadingDotWithin), <<".">>)

RECURSIVE NumberedLines(_)
NumberedLines(lines) ==
    IF lines = <<>> THEN <<>>
    ELSE (IF LooksNumbered(Head(lines)) THEN <<Head(lines)>> ELSE <<>>)
         \o NumberedLines(Tail(lines))

\* "1. Introduction"
FallbackTitle ==
    <<"1", ".", " ", "I", "n", "t", "r", "o", "d", "u", "c", "t", "i", "o", "n">>

\* parse_toc(toc_text)
ParseToc(toc_text) ==
    IF NumberedLines(SplitLines(toc_text)) # <<>>
    THEN NumberedLines(SplitLines(toc_text))
    ELSE <<FallbackTitle>>

\* One write to the document file: md_file.write_text(header and outline),
\* then per section f.write(heading), f.write(section_text), f.write("\n").
HeaderWrite(topic, toc) == [kind |-> "header", title |-> topic, text |-> toc]
HeadingWrite(title) == [kind |-> "heading", title |-> title, text |-> <<>>]
BodyWrite(title, text) == [kind |-> "body", title |-> title, text |-> text]
NewlineWrite(title) == [kind |-> "newline", title |-> title, text |-> <<>>]

\* "# Handbook: ", "\n\n## Table of Contents\n\n", "\n\n---\n\n## "
TitlePrefix == <<"#", " ", "H", "a", "n", "d", "b", "o", "o", "k", ":", " ">>
TocHeading ==
    <<"\n", "\n", "#", "#", " ", "T", "a", "b", "l", "e", " ", "o", "f", " ",
      "C", "o", "n", "t", "e", "n", "t", "s", "\n", "\n">>
SectionDelimiter == <<"\n", "\n", "-", "-", "-", "\n", "\n", "#", "#", " ">>

\* the characters one write puts into the file
WriteText(w) ==
    CASE w.kind = "header" -> TitlePrefix \o w.title \o TocHeading \o w.text \o NL2
      [] w.kind = "heading" -> SectionDelimiter \o w.title \o NL2
      [] w.kind = "body" -> w.text
      [] OTHER -> <<"\n">>

\* md_file.read_text(): the characters of the file
ReadText(content) == Concat([i \in 1..Len(content) |-> WriteText(content[i])])

\* the three writes of one appended section
SectionWrites(title, text) ==
    <<HeadingWrite(title), BodyWrite(title, text), NewlineWrite(title)>>

\* A call made by generate_handbook: what it is, the section it is for (none
\* for the outline) and, for a search, how many results came back.
Event(ev, title, n) == [ev |-> ev, title |-> title, n |-> n]

\* the events of one chat_completion call for a section title (<<>>: the
\* outline)
LlmEvents(title, llm) ==
    <<Event("chat_completion", title, 0)>>
    \o (IF llm.posted THEN <<Event("http_post", title, 0)>> ELSE <<>>)

\* The outlines the model may answer with: two numbered sections; no
\* numbered line; three numbered sections among other lines.
HbOutlines ==
    { <<"1", ".", " ", "A", "\n", "2", ".", " ", "B">>,
      <<"I", "n", "t", "r", "o">>,
      <<"#", " ", "T", "\n", "1", ".", " ", "A", "\n", " ", "-", " ", "x", "\n",
        "1", "2", ".", " ", "B", "\n", "\n", "3", ".", "C">> }
\* ... and every outline of at most MaxLines lines drawn from these: numbered
\* headings with the period at the second, fourth and fifth character, a lone
\* digit, a heading with spaces around it, a blank line, a line that starts
\* with a letter, and the shortest heading.
MaxLines == 2
OutlineLines ==
    { <<"1", ".", " ", "A">>, <<"1", "2", "3", ".", "C">>,
      <<"1", "2", "3", "4", ".", " ", "D">>, <<"1">>,
      <<" ", "2", ".", " ", "E", " ">>, <<>>, <<"A", "1", ".">>, <<"7", ".">> }
LinedOutlines ==
    { Join(<<"\n">>, ls) : ls \in UNION { [1..n -> OutlineLines] : n \in 0..MaxLines } }
HbTopics == { <<"m", "l">> }
HbSectionTexts == { <<"s">>, <<"u">> }

\* what the store may answer to a section's search
HbHit(ci) ==
    [source_path |-> "a.pdf", page |-> 1, chunk_index |-> ci, text |-> <<"t">>,
     score |-> 1]
HbHits == { <<>>, <<HbHit(0)>>, <<HbHit(0), HbHit(1)>> }

\* out_path.mkdir; toc = chat_completion(outline_messages(topic));
\* md_file.write_text(...); sections = parse_toc(toc)
HbOutline ==
    /\ hb_pc = "call"
    /\ hb_dir' = TRUE
    /\ \E reply \in Replies(HbOutlines \cup LinedOutlines) :
          LET llm == ChatCompletion(hb_env, reply.resp, reply.content)
          IN  IF llm.raised
              THEN /\ hb_pc' = "raised"
                   /\ hb_log' = <<Event("mkdir", <<>>, 0)>> \o LlmEvents(<<>>, llm)
                   /\ UNCHANGED <<hb_toc, hb_sections, hb_i, hb_file>>
              ELSE /\ hb_pc' = "search"
                   /\ hb_toc' = llm.content
                   /\ hb_file' = [exists |-> TRUE,
                                  content |-> <<HeaderWrite(hb_topic, llm.content)>>]
                   /\ hb_sections' = ParseToc(llm.content)
                   /\ hb_i' = 1
                   /\ hb_log' = <<Event("mkdir", <<>>, 0)>> \o LlmEvents(<<>>, llm)
                                 \o <<Event("write_text", <<>>, 0)>>
    /\ UNCHANGED <<hb_topic, hb_env, hb_retrieved, hb_section_text, hb_result,
                   sqVars, ragVars, chVars, stVars>>

\* retrieved = store.search(topic and section title, k=8), for section hb_i
HbSearch ==
    /\ hb_pc = "search"
    /\ \E ok \in BOOLEAN, hits \in HbHits :
          /\ ~ok => hits = <<>>
          /\ hb_pc' = IF ok THEN "draft" ELSE "raised"
          /\ hb_retrieved' = hits
          /\ hb_log' = Append(hb_log, Event("search", hb_sections[hb_i], Len(hits)))
    /\ UNCHANGED <<hb_topic, hb_env, hb_toc, hb_sections, hb_i, hb_section_text,
                   hb_dir, hb_file, hb_result, sqVars, ragVars, chVars, stVars>>

\* A drafting step that writes the section heading to the file before it asks
\* the model for the section.
HbDraftHeadingFirst ==
    /\ hb_pc = "draft"
    /\ \E reply \in Replies(HbSectionTexts) :
          LET llm == ChatCompletion(hb_env, reply.resp, reply.content)
          IN  /\ hb_pc' = IF llm.raised THEN "raised" ELSE "append"
              /\ hb_section_text' = llm.content
              /\ hb_log' = hb_log \o LlmEvents(hb_sections[hb_i], llm)
    /\ hb_file' = [hb_file EXCEPT
                     !.content = Append(@, HeadingWrite(hb_sections[hb_i]))]
    /\ UNCHANGED <<hb_topic, hb_env, hb_toc, hb_sections, hb_i, hb_retrieved,
                   hb_dir, hb_result, sqVars, ragVars, chVars, stVars>>

\* evidence = format_retrieved_chunks(retrieved);
\* section_text = chat_completion(section_messages(...)), for section hb_i
HbDraft ==
    /\ hb_pc = "draft"
    /\ \E reply \in Replies(HbSectionTexts) :
          LET llm == ChatCompletion(hb_env, reply.resp, reply.content)
          IN  /\ hb_pc' = IF llm.raised THEN "raised" ELSE "append"
              /\ hb_section_text' = llm.content
              /\ hb_log' = hb_log \o LlmEvents(hb_sections[hb_i], llm)
    /\ UNCHANGED <<hb_topic, hb_env, hb_toc, hb_sections, hb_i, hb_retrieved,
                   hb_dir, hb_file, hb_result, sqVars, ragVars, chVars, stVars>>

\* the section is appended to the file; after the last section the file is
\* read back and returned
HbAppend ==
    /\ hb_pc = "append"
    /\ LET content == hb_file.content \o SectionWrites(hb_sections[hb_i], hb_section_text)
       IN  /\ hb_file' = [hb_file EXCEPT !.content = content]
           /\ hb_log' = Append(hb_log, Event("append", hb_sections[hb_i], 0))
           /\ IF hb_i < Len(hb_sections)
              THEN /\ hb_i' = hb_i + 1
                   /\ hb_pc' = "search"
                   /\ UNCHANGED hb_result
              ELSE /\ hb_pc' = "returned"
                   /\ hb_result' = [text |-> ReadText(content), returned |-> TRUE]
                   /\ UNCHANGED hb_i
    /\ UNCHANGED <<hb_topic, hb_env, hb_toc, hb_sections, hb_retrieved,
                   hb_section_text, hb_dir, sqVars, ragVars, chVars, stVars>>

HbInit ==
    /\ SqIdle /\ RagIdle /\ ChIdle /\ StIdle
    /\ hb_pc = "call"
    /\ hb_topic \in HbTopics
    /\ hb_env \in Envs
    /\ hb_toc = <<>> /\ hb_sections = <<>> /\ hb_i = 0
    /\ hb_retrieved = <<>> /\ hb_section_text = <<>>
    /\ hb_dir = FALSE
    /\ hb_file = [exists |-> FALSE, content |-> <<>>]
    /\ hb_log = <<>> /\ hb_result = [text |-> <<>>, returned |-> FALSE]

HbNext == HbOutline \/ HbSearch \/ HbDraft \/ HbAppend

SpecHandbook == HbInit /\ [][HbNext]_vars

\* the calls made for sections, in the order they were made
SectionCalls ==
    SelectSeq(hb_log, LAMBDA e : e.title # <<>> /\ e.ev # "http_post")

SectionSteps == <<"search", "chat_completion", "append">>

\* the file holds the header and outline followed by exactly n whole sections,
\* the first n of the outline in order
HoldsSections(n) ==
    /\ hb_file.exists
    /\ Len(hb_file.content) = 1 + 3 * n
    /\ hb_file.content[1] = HeaderWrite(hb_topic, hb_toc)
    /\ \A j \in 1..n :
          /\ hb_file.content[3 * j - 1] = HeadingWrite(hb_sections[j])
          /\ hb_file.content[3 * j].kind = "body"
          /\ hb_file.content[3 * j].title = hb_sections[j]
          /\ hb_file.content[3 * j + 1] = NewlineWrite(hb_sections[j])

\* C9: generate_handbook writes the header and the outline to the file before
\* it retrieves for any section; it handles the sections one after another in
\* outline order, each retrieved for, drafted and appended before the next is
\* begun; and when retrieval or drafting fails for section N+1 the call has
\* raised, has returned nothing, and the file holds the header, the outline
\* and exactly the N sections completed before.
C9_SequentialSections ==
    /\ \A p \in DOMAIN hb_log :
          hb_log[p].title # <<>> =>
              /\ \E q \in 1..(p - 1) : hb_log[q].ev = "write_text"
              /\ hb_file.exists
              /\ hb_file.content[1] = HeaderWrite(hb_topic, hb_toc)
    /\ \A p \in DOMAIN SectionCalls :
          /\ ((p - 1) \div 3) + 1 <= Len(hb_sections)
          /\ SectionCalls[p].ev = SectionSteps[((p - 1) % 3) + 1]
          /\ SectionCalls[p].title = hb_sections[((p - 1) \div 3) + 1]
    /\ (hb_pc = "raised" /\ hb_i >= 1) =>
          /\ ~hb_result.returned
          /\ HoldsSections(hb_i - 1)
    /\ hb_pc = "returned" => HoldsSections(Len(hb_sections))

\* drafting the second of three sections has failed after the first section
\* was appended
C9_Witness ==
    /\ hb_pc = "raised"
    /\ hb_i = 2
    /\ Len(hb_sections) = 3
    /\ Len(hb_file.content) = 4
    /\ hb_log[Len(hb_log)].ev \in {"chat_completion", "http_post"}
    /\ hb_log[Len(hb_log)].title = hb_sections[2]

\* C10: whenever the retrieval for a section of generate_handbook yields no
\* evidence, the language model is not invoked for that section: every
\* drafting call follows a search that returned at least one result.
C10_NoDraftWithoutEvidence ==
    \A p \in DOMAIN hb_log :
        (hb_log[p].ev = "chat_completion" /\ hb_log[p].title # <<>>) =>
            /\ p > 1
            /\ hb_log[p - 1].ev = "search"
            /\ hb_log[p - 1].n > 0

\* the positions at which sub occurs in s
Occurrences(s, sub) ==
    { i \in 1..(Len(s) - Len(sub) + 1) : SubSeq(s, i, i + Len(sub) - 1) = sub }

\* the line, trimmed, starts with a digit and has a period among its first
\* four characters
Qualifies(ln) ==
    /\ ln # <<>>
    /\ IsDigit(ln[1])
    /\ \E p \in 1..4 : p <= Len(ln) /\ ln[p] = "."

\* the trimmed qualifying lines of an outline, in outline order
QualifyingLines(toc) ==
    LET lines == SplitSep(toc, <<"\n">>)
        at == Ascending({ i \in 1..Len(lines) : Qualifies(Strip(lines[i])) })
    IN  [r \in 1..Len(at) |-> Strip(lines[at[r]])]

\* the text of the file: the title, the table of contents, then one
\* delimited section per title, in order, with some text each
DocumentOf(topic, toc, titles, text) ==
    /\ \E bodies \in [1..Len(titles) -> HbSectionTexts] :
          text = TitlePrefix \o topic \o TocHeading \o toc \o NL2
                 \o Concat([j \in 1..Len(titles) |->
                              SectionDelimiter \o titles[j] \o NL2 \o bodies[j]
                              \o <<"\n">>])
    /\ Cardinality(Occurrences(text, SectionDelimiter)) = Len(titles)

\* C17: parse_toc returns a non-empty list for every outline: the trimmed
\* lines that start with a digit and have a period within their first four
\* characters, in outline order, or the single title "1. Introduction" when
\* no line qualifies; and when generate_handbook completes the file holds the
\* title, the table of contents and exactly one delimited section per parsed
\* title, in that order.
C17_OutlineAndDocument ==
    hb_pc \notin {"call", "idle"} /\ hb_file.exists =>
        /\ hb_sections # <<>>
        /\ hb_sections = ParseToc(hb_toc)
        /\ hb_sections = (IF QualifyingLines(hb_toc) # <<>>
                          THEN QualifyingLines(hb_toc) ELSE <<FallbackTitle>>)
        /\ hb_pc = "returned" =>
              /\ DocumentOf(hb_topic, hb_toc, hb_sections, ReadText(hb_file.content))
              /\ hb_result.returned
              /\ hb_result.text = ReadText(hb_file.content)

\* a handbook of three sections was completed from an outline of five lines,
\* two of which do not qualify
C17_Witness ==
    /\ hb_pc = "returned"
    /\ Len(hb_sections) = 3
    /\ Len(SplitLines(hb_toc)) = 5
    /\ Len(hb_file.content) = 10

====
